---- MODULE Spec2Model ----
(***************************************************************************)
(* A model of forwarder.py: the polling forwarder that fetches the new     *)
(* messages of every configured source, matches them against the keyword   *)
(* lists of the destinations bound to the source, forwards the matching    *)
(* ones (copying them when the forward raises) and advances a per-source   *)
(* cursor, last_message_ids.                                               *)
(*                                                                         *)
(* Strings are sequences of one-character strings, so that lower(),        *)
(* split() and the substring test `in` are computed, not assumed.          *)
(***************************************************************************)
EXTENDS Integers, Sequences, FiniteSets, TLC

(***************************************************************************)
(* Bounds of the model.                                                    *)
(***************************************************************************)
\* messages posted during a run, all sources together (before or after startup)
MaxMsgs == 2
\* polling cycles of periodic_message_checker that are explored
MaxCycles == 2
\* backend calls that raise during a run
MaxFailures == 3
\* messages posted during a run in which no backend call raises
MaxLoadMsgs == 3
\* length of the keywords and of the texts put to the matcher on its own
MaxKeywordLen == 3
MaxTextLen == 3

(***************************************************************************)
(* Program constants.                                                      *)
(***************************************************************************)
\* destinations_config.py: LAST_MESSAGES_LIMIT = 20, scaled down to the
\* size of the modelled mailboxes
LAST_MESSAGES_LIMIT == 2

None == "None"

(***************************************************************************)
(* str.lower, str.split, `in` on strings                                   *)
(***************************************************************************)
\* variant: the text (or the keyword) is compared as it is written
Lower_Identity(s) == s

LowerChar(c) ==
  CASE c = "A" -> "a"
    [] c = "B" -> "b"
    [] c = "C" -> "c"
    [] c = "X" -> "x"
    [] OTHER -> c

Lower(s) == [i \in 1..Len(s) |-> LowerChar(s[i])]

\* word in text  (Python: substring test; the empty string is in every string)
IsSubstr(w, t) ==
  \E i \in 0..(Len(t) - Len(w)) : SubSeq(t, i + 1, i + Len(w)) = w

HasSpace(s) == \E i \in 1..Len(s) : s[i] = " "

\* what str.split() takes for a separator: any whitespace
IsBlank(c) == c \in {" ", "\t", "\n"}

\* str.split(): the maximal runs of non-blank characters, in order
RECURSIVE SplitFrom(_, _, _)
SplitFrom(s, i, cur) ==
  IF i > Len(s)
  THEN IF cur = <<>> THEN <<>> ELSE <<cur>>
  ELSE IF IsBlank(s[i])
       THEN IF cur = <<>>
            THEN SplitFrom(s, i + 1, <<>>)
            ELSE <<cur>> \o SplitFrom(s, i + 1, <<>>)
       ELSE SplitFrom(s, i + 1, Append(cur, s[i]))

Split(s) == SplitFrom(s, 1, <<>>)

\* variant: a keyword of several words is matched as a phrase
KeywordMatches_Phrase(keyword, message_lower) == IsSubstr(keyword, message_lower)

\* one iteration of the loop of contains_keyword: does this keyword match
KeywordMatches(keyword, message_lower) ==
  IF HasSpace(keyword)
  THEN \A k \in 1..Len(Split(keyword)) : IsSubstr(Split(keyword)[k], message_lower)
  ELSE IsSubstr(keyword, message_lower)

\* contains_keyword(message_text, keywords_list): the matched keywords, in order
contains_keyword(message_text, keywords_list) ==
  IF message_text = <<>>
  THEN <<>>
  ELSE SelectSeq(keywords_list, LAMBDA kw : KeywordMatches(kw, Lower(message_text)))

(***************************************************************************)
(* Configuration: a dict is a sequence of entries in insertion order.      *)
(* Source s1 is listed under both destinations, s2 under dA only; the      *)
(* keywords are configured in mixed case and one of them has two words.    *)
(***************************************************************************)
DESTINATIONS ==
  << [name |-> "DA", DESTINATION |-> "dA",
      SOURCES |-> << [name |-> "S1", SOURCE |-> "s1", KEYWORDS |-> << <<"A">> >>],
                     [name |-> "S2", SOURCE |-> "s2", KEYWORDS |-> << <<"a">> >>] >>],
     [name |-> "DB", DESTINATION |-> "dB",
      SOURCES |-> << [name |-> "S1B", SOURCE |-> "s1",
                      KEYWORDS |-> << <<"B", " ", "c">> >>] >>] >>

\* the (destination, source) entries in the order the two nested loops visit them
RECURSIVE ConfigEntriesFrom(_, _)
ConfigEntriesFrom(i, j) ==
  IF i > Len(DESTINATIONS)
  THEN <<>>
  ELSE IF j > Len(DESTINATIONS[i].SOURCES)
       THEN ConfigEntriesFrom(i + 1, 1)
       ELSE << [dest_id     |-> DESTINATIONS[i].DESTINATION,
                source_name |-> DESTINATIONS[i].SOURCES[j].name,
                source_id   |-> DESTINATIONS[i].SOURCES[j].SOURCE,
                KEYWORDS    |-> DESTINATIONS[i].SOURCES[j].KEYWORDS] >>
            \o ConfigEntriesFrom(i, j + 1)

ConfigEntries == ConfigEntriesFrom(1, 1)

Range(f) == {f[i] : i \in DOMAIN f}

\* variant: without `if source_id not in all_sources` the entry of the source
\* is created anew for every destination that lists it
AddSource_Overwrite(acc, e) ==
  [order |-> IF e.source_id \in Range(acc.order)
             THEN acc.order
             ELSE Append(acc.order, e.source_id),
   info  |-> (e.source_id :>
                [source_name |-> e.source_name,
                 dest_order  |-> <<e.dest_id>>,
                 dest_keywords |-> (e.dest_id :> e.KEYWORDS),
                 dest_keywords_lower |->
                   (e.dest_id :> [k \in 1..Len(e.KEYWORDS) |-> Lower(e.KEYWORDS[k])])])
             @@ acc.info]

\* the body of the inner loop that fills all_sources; acc.order is the
\* insertion order of the dict, acc.info its values
AddSource(acc, e) ==
  LET known == e.source_id \in Range(acc.order)
      old   == IF known
               THEN acc.info[e.source_id]
               ELSE [source_name |-> e.source_name, dest_order |-> <<>>,
                     dest_keywords |-> <<>>, dest_keywords_lower |-> <<>>]
      new   == [source_name |-> old.source_name,
                dest_order  |-> IF e.dest_id \in Range(old.dest_order)
                                THEN old.dest_order
                                ELSE Append(old.dest_order, e.dest_id),
                dest_keywords |-> (e.dest_id :> e.KEYWORDS) @@ old.dest_keywords,
                dest_keywords_lower |->
                  (e.dest_id :> [k \in 1..Len(e.KEYWORDS) |-> Lower(e.KEYWORDS[k])])
                    @@ old.dest_keywords_lower]
  IN [order |-> IF known THEN acc.order ELSE Append(acc.order, e.source_id),
      info  |-> (e.source_id :> new) @@ acc.info]

RECURSIVE BuildSources(_, _)
BuildSources(acc, k) ==
  IF k > Len(ConfigEntries)
  THEN acc
  ELSE BuildSources(AddSource(acc, ConfigEntries[k]), k + 1)

all_sources == BuildSources([order |-> <<>>, info |-> <<>>], 1)

SourceIds == Range(all_sources.order)
DestIds == {DESTINATIONS[i].DESTINATION : i \in 1..Len(DESTINATIONS)}
DestsOf(s) == Range(all_sources.info[s].dest_order)

\* the message ids a source can hold
MsgIds == 1..(IF MaxLoadMsgs > MaxMsgs THEN MaxLoadMsgs ELSE MaxMsgs)

\* the (source, message id, destination) triples of the model
Pairs == {p \in SourceIds \X MsgIds \X DestIds : p[3] \in DestsOf(p[1])}

(***************************************************************************)
(* Backend values: messages and senders.                                   *)
(***************************************************************************)
\* what a source can receive: out, text and caption of a message
MsgPool ==
  { [out |-> FALSE, text |-> <<>>, caption |-> <<"c", "B">>],
    [out |-> FALSE, text |-> <<"C", "a", "b">>, caption |-> <<>>],
    [out |-> FALSE, text |-> <<"x">>, caption |-> <<>>],
    [out |-> TRUE,  text |-> <<"c", "a", "b">>, caption |-> <<>>] }

\* what message.get_sender() can return
Senders ==
  { [type |-> "User", first_name |-> "Ann", last_name |-> "Lee", username |-> "ann"],
    [type |-> None] }

\* get_sender_name(sender)
get_sender_name(sender) ==
  IF sender.type = "User"
  THEN IF sender.first_name # None /\ sender.last_name # None
       THEN sender.first_name \o " " \o sender.last_name
       ELSE IF sender.first_name # None
            THEN sender.first_name
            ELSE IF sender.username # None
                 THEN "@" \o sender.username
                 ELSE "Unknown User"
  ELSE IF sender.type \in {"Channel", "Chat"}
       THEN sender.title
       ELSE "Unknown Sender"

\* get_sender_username(sender)
get_sender_username(sender) ==
  IF sender.type = "User" THEN sender.username ELSE None

\* the text the matcher sees: message.text, else message.caption, else ""
MessageText(msg) ==
  IF msg.text # <<>> THEN msg.text
  ELSE IF msg.caption # <<>> THEN msg.caption ELSE <<>>

(***************************************************************************)
(* State.                                                                  *)
(***************************************************************************)
VARIABLES
  mailbox,                  \* backend: mailbox[s][i] is the message of source s with id i
  last_message_ids,         \* the per-source cursor
  pc,                       \* where main / the polling loop stands
  idx,                      \* position of the running for loop over dests or sources
  messages,                 \* ids returned by get_messages, still to be looped over
  message,                  \* id of the message being processed, 0 when none
  dest_i,                   \* position in dest_keywords_lower.items()
  any_destination_matched,  \* local of the message loop
  sender_name,              \* local of the message loop
  sender_username,          \* local of the message loop
  destination_info,         \* main: destinations whose entity was resolved, in order
  inaccessible_destinations,
  inaccessible_sources,
  sleep_seconds,            \* argument of the asyncio.sleep in progress, 0 when none
  cycle,                    \* number of calls of check_and_forward_messages so far
  failures,                 \* number of backend calls that raised so far
  nEval,                    \* history: cycles in which (s, id) was put to the matcher
  nMatch,                   \* history: contains_keyword calls per (s, id, dest)
  nForward,                 \* history: forward_messages calls per (s, id, dest)
  nSend,                    \* history: send_message calls of the copy per (s, id, dest)
  nOk,                      \* history: calls that delivered, per (s, id, dest)
  forward_error,            \* the exception bound by `except Exception as forward_error`
  fetched,                  \* this cycle: ids get_messages returned, per source
  cursor0,                  \* this cycle: the cursors when the cycle started
  raisedAt,                 \* this cycle: the call whose exception ended the source
  nFetch,                   \* this cycle: get_messages calls per source
  call,                     \* the backend call issued by the last step of the program
  existing,                 \* history: messages each source held when startup looked at it
  nSender,                  \* get_sender calls for the message in process
  nAck,                     \* this cycle: send_read_acknowledge calls per source
  matcher                   \* the routing table folding a keyword and contains_keyword applied to it

ctl == <<pc, idx, messages, message, dest_i, any_destination_matched,
         sender_name, sender_username, nSender, forward_error>>
locals == <<messages, message, dest_i, any_destination_matched,
            sender_name, sender_username, nSender, forward_error>>
startup == <<destination_info, inaccessible_destinations, inaccessible_sources, existing>>
hist == <<nEval, nMatch, nForward, nSend, nOk>>
cyc == <<fetched, cursor0, raisedAt, nFetch, nAck>>
vars == <<mailbox, last_message_ids, ctl, startup, sleep_seconds, cycle, failures,
          hist, cyc, call, matcher>>

NoCall == [op |-> "none"]
INTERVAL_MINUTES == 7
COOLDOWN_SECONDS == 60

\* the matcher is at rest: no keyword, no text
MatcherIdle == [step |-> "idle", keyword |-> <<>>, folded |-> <<>>, text |-> <<>>,
                result |-> <<>>]

\* the module level has run: empty cursors, nothing called yet
ProgramInit ==
  /\ mailbox = [s \in SourceIds |-> <<>>]
  /\ last_message_ids = [s \in SourceIds |-> 0]
  /\ pc = "connect"
  /\ idx = 1
  /\ messages = <<>>
  /\ message = 0
  /\ dest_i = 1
  /\ any_destination_matched = FALSE
  /\ sender_name = None
  /\ sender_username = None
  /\ nSender = 0
  /\ forward_error = None
  /\ destination_info = <<>>
  /\ inaccessible_destinations = <<>>
  /\ inaccessible_sources = <<>>
  /\ existing = [s \in SourceIds |-> 0]
  /\ sleep_seconds = 0
  /\ cycle = 0
  /\ failures = 0
  /\ nEval = [s \in SourceIds |-> [m \in MsgIds |-> 0]]
  /\ nMatch = [p \in Pairs |-> 0]
  /\ nForward = [p \in Pairs |-> 0]
  /\ nSend = [p \in Pairs |-> 0]
  /\ nOk = [p \in Pairs |-> 0]
  /\ fetched = [s \in SourceIds |-> {}]
  /\ cursor0 = [s \in SourceIds |-> 0]
  /\ raisedAt = [s \in SourceIds |-> None]
  /\ nFetch = [s \in SourceIds |-> 0]
  /\ nAck = [s \in SourceIds |-> 0]
  /\ call = NoCall

Init ==
  /\ ProgramInit
  /\ matcher = MatcherIdle

(***************************************************************************)
(* The backend: a message is posted to a source.  The program sees a       *)
(* mailbox only when it queries it (get_messages at startup and in a       *)
(* cycle), so a post at any other moment is the same as that post right    *)
(* before the next query of its source: posts are taken there.  What the   *)
(* message holds is drawn from MsgPool when the program first looks at it  *)
(* (NextMessage) and stays what it is from then on; until then the         *)
(* mailbox holds Unread in its place.                                      *)
(***************************************************************************)
Unread == [out |-> FALSE, text |-> <<"?">>, caption |-> <<"?">>]

RECURSIVE SumLen(_, _)
SumLen(box, S) ==
  IF S = {} THEN 0
  ELSE LET s == CHOOSE x \in S : TRUE IN Len(box[s]) + SumLen(box, S \ {s})

Posted == SumLen(mailbox, SourceIds)

\* a backend call returns (ok) or raises
Raises(ok) ==
  /\ ok \/ failures < MaxFailures
  /\ failures' = IF ok THEN failures ELSE failures + 1

\* a message is posted to the source that is queried next, while fewer than
\* n messages have been posted in all
PostUpTo(n) ==
  \E s \in SourceIds :
    /\ pc \in {"verify_source", "fetch"}
    /\ idx <= Len(all_sources.order)
    /\ s = all_sources.order[idx]
    /\ Posted < n
    /\ mailbox' = [mailbox EXCEPT ![s] = Append(@, Unread)]
    /\ UNCHANGED <<matcher, last_message_ids, ctl, startup, sleep_seconds, cycle, failures,
                   hist, cyc, call>>

Post == PostUpTo(MaxMsgs)

(***************************************************************************)
(* main(): startup                                                         *)
(***************************************************************************)
\* client.start() and client.get_me(); an exception is fatal: sys.exit(1)
Connect ==
  /\ pc = "connect"
  /\ \E ok \in BOOLEAN :
       /\ Raises(ok)
       /\ pc' = IF ok THEN "verify_dest" ELSE "exit"
       /\ call' = [op |-> "start"]
  /\ idx' = 1
  /\ UNCHANGED <<matcher, mailbox, last_message_ids, locals, startup, sleep_seconds, cycle, hist, cyc>>

\* one iteration of: for dest_name, dest_info in DESTINATIONS.items()
VerifyDestination ==
  /\ pc = "verify_dest"
  /\ idx <= Len(DESTINATIONS)
  /\ LET dest_id == DESTINATIONS[idx].DESTINATION IN
       /\ \E ok \in BOOLEAN :
            /\ Raises(ok)
            /\ IF ok
               THEN /\ destination_info' = Append(destination_info, dest_id)
                    /\ UNCHANGED inaccessible_destinations
               ELSE /\ inaccessible_destinations' =
                         Append(inaccessible_destinations, DESTINATIONS[idx].name)
                    /\ UNCHANGED destination_info
       /\ call' = [op |-> "get_entity", id |-> dest_id]
  /\ idx' = IF idx = Len(DESTINATIONS) THEN 1 ELSE idx + 1
  /\ pc' = IF idx = Len(DESTINATIONS) THEN "verify_source" ELSE pc
  /\ UNCHANGED <<matcher, mailbox, last_message_ids, locals, inaccessible_sources, existing,
                 sleep_seconds, cycle, hist, cyc>>

\* variant: the cursor starts at the id the next message will have
LatestId_Next(box) == Len(box) + 1

\* messages[0].id of get_messages(source_id, limit=1): the id of the latest
\* message of the source
LatestId(box) == Len(box)

\* one iteration of: for source_id, source_info in all_sources.items()
\* get_entity, then get_messages(source_id, limit=1); either may raise
VerifySource ==
  /\ pc = "verify_source"
  /\ idx <= Len(all_sources.order)
  /\ LET source_id == all_sources.order[idx] IN
       \E outcome \in {"ok", "get_entity", "get_messages"} :
         /\ Raises(outcome = "ok")
         /\ IF outcome = "ok"
            THEN /\ last_message_ids' =
                      IF mailbox[source_id] # <<>>
                      THEN [last_message_ids EXCEPT ![source_id] = LatestId(mailbox[source_id])]
                      ELSE last_message_ids
                 /\ UNCHANGED inaccessible_sources
            ELSE /\ inaccessible_sources' =
                      Append(inaccessible_sources, all_sources.info[source_id].source_name)
                 /\ UNCHANGED last_message_ids
         /\ call' = IF outcome = "get_entity"
                    THEN [op |-> "get_entity", id |-> source_id]
                    ELSE [op |-> "get_messages", id |-> source_id, limit |-> 1]
         /\ existing' = [existing EXCEPT ![source_id] = Len(mailbox[source_id])]
  /\ idx' = IF idx = Len(all_sources.order) THEN 1 ELSE idx + 1
  /\ pc' = IF idx = Len(all_sources.order) THEN "notify" ELSE pc
  /\ UNCHANGED <<matcher, mailbox, locals, destination_info, inaccessible_destinations,
                 sleep_seconds, cycle, hist, cyc>>

\* one iteration of: for dest_id, dest_info in destination_info.items(),
\* the startup message; an exception of send_message is logged.  After the
\* loop main calls periodic_message_checker, which never returns: what
\* main recorded of the startup (destination_info, inaccessible_destinations,
\* inaccessible_sources) is not read again.  With keep the records stay as
\* they are for the rest of the run, without it they are dropped there.
NotifyStep(keep) ==
  /\ pc = "notify"
  /\ IF idx <= Len(destination_info)
     THEN /\ call' = [op |-> "send_message", dest |-> destination_info[idx],
                        startup |-> TRUE]
          /\ \E ok \in BOOLEAN : Raises(ok)
          /\ idx' = idx + 1
          /\ pc' = pc
          /\ UNCHANGED startup
     ELSE /\ call' = NoCall
          /\ idx' = 1
          /\ pc' = "loop"
          /\ destination_info' = <<>>
          /\ IF keep
             THEN UNCHANGED <<inaccessible_destinations, inaccessible_sources, existing>>
             ELSE /\ inaccessible_destinations' = <<>>
                  /\ inaccessible_sources' = <<>>
                  /\ existing' = [s \in SourceIds |-> 0]
          /\ UNCHANGED failures
  /\ UNCHANGED <<matcher, mailbox, last_message_ids, locals, sleep_seconds, cycle,
                 hist, cyc>>

\* the polling loop, which reads none of the records of the startup
Notify == NotifyStep(FALSE)

\* the same with the records of the startup kept
NotifyKeeping == NotifyStep(TRUE)

(***************************************************************************)
(* check_and_forward_messages(): one polling cycle                         *)
(***************************************************************************)
CurSource == all_sources.order[idx]
CurDest == all_sources.info[CurSource].dest_order[dest_i]
CurPair == <<CurSource, message, CurDest>>

\* variant: the cursor is assigned the id of the message just processed
AdvanceCursor_Assign(cursor, id) == id

\* max(last_message_ids[source_id], message.id)
AdvanceCursor(cursor, id) == IF cursor >= id THEN cursor ELSE id

\* variant: min_id is taken as inclusive
FetchNew_Inclusive(box, min_id, limit) ==
  LET above == {i \in 1..Len(box) : i >= min_id}
  IN {i \in above : Cardinality({j \in above : j > i}) < limit}

\* variant: of the ids above min_id the backend returns the `limit` oldest
FetchNew_Oldest(box, min_id, limit) ==
  LET above == {i \in 1..Len(box) : i > min_id}
  IN {i \in above : Cardinality({j \in above : j < i}) < limit}

\* client.get_messages(source_id, min_id=..., limit=...): the ids above
\* min_id, and of these the `limit` newest
FetchNew(box, min_id, limit) ==
  LET above == {i \in 1..Len(box) : i > min_id}
  IN {i \in above : Cardinality({j \in above : j > i}) < limit}

\* the backend returns the newest message first
RECURSIVE Descending(_)
Descending(S) ==
  IF S = {} THEN <<>>
  ELSE LET top == CHOOSE i \in S : \A j \in S : j <= i
       IN <<top>> \o Descending(S \ {top})

ResetLocals ==
  /\ messages' = <<>>
  /\ message' = 0
  /\ dest_i' = 1
  /\ any_destination_matched' = FALSE
  /\ sender_name' = None
  /\ sender_username' = None
  /\ nSender' = 0
  /\ forward_error' = None

\* the for loop over all_sources goes on with the next source
ContinueSources ==
  /\ pc' = "fetch"
  /\ idx' = idx + 1
  /\ ResetLocals
  /\ UNCHANGED sleep_seconds

\* variant: the try is around the whole for loop, so that the exception leaves
\* check_and_forward_messages and reaches the handler of periodic_message_checker
SourceRaised_Escapes(source_id, where) ==
  /\ raisedAt' = [raisedAt EXCEPT ![source_id] = where]
  /\ pc' = "sleep"
  /\ idx' = 1
  /\ ResetLocals
  /\ sleep_seconds' = COOLDOWN_SECONDS

\* except Exception as e: print(...) of the per-source try, then the next source
SourceRaised(source_id, where) ==
  /\ raisedAt' = [raisedAt EXCEPT ![source_id] = where]
  /\ ContinueSources

\* check_and_forward_messages() is entered: processed_count = 0 and the
\* for loop over all_sources starts
EnterCycle ==
  /\ cycle < MaxCycles
  /\ cycle' = cycle + 1
  /\ pc' = "fetch"
  /\ idx' = 1
  /\ cursor0' = last_message_ids
  /\ fetched' = [s \in SourceIds |-> {}]
  /\ raisedAt' = [s \in SourceIds |-> None]
  /\ nFetch' = [s \in SourceIds |-> 0]
  /\ nAck' = [s \in SourceIds |-> 0]
  /\ call' = NoCall
  /\ UNCHANGED <<matcher, mailbox, last_message_ids, locals, startup, failures, hist>>

\* periodic_message_checker is entered: while True: try:
\*   await check_and_forward_messages()
CycleStart ==
  /\ pc = "loop"
  /\ EnterCycle
  /\ UNCHANGED sleep_seconds

\* messages = await client.get_messages(...); if not messages: continue
GetMessages ==
  /\ pc = "fetch"
  /\ idx <= Len(all_sources.order)
  /\ LET source_id == CurSource
         got == FetchNew(mailbox[source_id], last_message_ids[source_id],
                         LAST_MESSAGES_LIMIT)
     IN /\ call' = [op |-> "get_messages", id |-> source_id,
                    min_id |-> last_message_ids[source_id]]
        /\ nFetch' = [nFetch EXCEPT ![source_id] = @ + 1]
        /\ \E ok \in BOOLEAN :
             /\ Raises(ok)
             /\ IF ~ok
                THEN /\ SourceRaised(source_id, "get_messages")
                     /\ UNCHANGED fetched
                ELSE /\ fetched' = [fetched EXCEPT ![source_id] = got]
                     /\ UNCHANGED raisedAt
                     /\ IF got = {}
                        THEN ContinueSources
                        ELSE /\ messages' = Descending(got)
                             /\ pc' = "message"
                             /\ UNCHANGED <<idx, message, dest_i, any_destination_matched,
                                            sender_name, sender_username, nSender, forward_error,
                                            sleep_seconds>>
  /\ UNCHANGED <<matcher, mailbox, last_message_ids, startup, cycle, hist, cursor0, nAck>>

\* what message id of source s holds: drawn at the first look, fixed afterwards
Content(s, id) == IF mailbox[s][id] = Unread THEN MsgPool ELSE {mailbox[s][id]}

\* variant: outgoing messages are processed like any other
SkipMessage_Never(msg) == FALSE

\* if message.out: continue
SkipMessage(msg) == msg.out

\* for message in messages: if message.out: continue ... ; after the loop
\* the source is marked read
NextMessage ==
  /\ pc = "message"
  /\ call' = NoCall
  /\ IF messages = <<>>
     THEN /\ pc' = "ack"
          /\ UNCHANGED <<mailbox, messages, message, dest_i, any_destination_matched,
                         sender_name, sender_username, nSender>>
     ELSE \E msg \in Content(CurSource, Head(messages)) :
          /\ mailbox' = [mailbox EXCEPT ![CurSource][Head(messages)] = msg]
          /\ messages' = Tail(messages)
          /\ IF SkipMessage(msg)
             THEN UNCHANGED <<pc, message, dest_i, any_destination_matched,
                              sender_name, sender_username, nSender>>
             ELSE /\ message' = Head(messages)
                  /\ dest_i' = 1
                  /\ any_destination_matched' = FALSE
                  /\ sender_name' = None
                  /\ sender_username' = None
                  /\ nSender' = 0
                  /\ pc' = "match"
  /\ UNCHANGED <<matcher, last_message_ids, idx, forward_error, startup, sleep_seconds,
                 cycle, failures, hist, cyc>>

\* variant: the sender is resolved at every destination that matches
FirstMatch_Always(matched_before) == TRUE

\* if not any_destination_matched:
FirstMatch(matched_before) == ~matched_before

\* one iteration of: for dest_id, kw_list_lower in dest_keywords_lower.items(),
\* up to the first await
MatchDestination ==
  /\ pc = "match"
  /\ dest_i <= Len(all_sources.info[CurSource].dest_order)
  /\ LET matched_keywords ==
           contains_keyword(MessageText(mailbox[CurSource][message]),
                            all_sources.info[CurSource].dest_keywords_lower[CurDest])
     IN /\ nMatch' = [nMatch EXCEPT ![CurPair] = @ + 1]
        /\ nEval' = [nEval EXCEPT ![CurSource][message] = IF dest_i = 1 THEN @ + 1 ELSE @]
        /\ IF matched_keywords = <<>>
           THEN /\ dest_i' = dest_i + 1
                /\ UNCHANGED <<pc, any_destination_matched>>
           ELSE IF FirstMatch(any_destination_matched)
                THEN /\ any_destination_matched' = TRUE
                     /\ pc' = "sender"
                     /\ UNCHANGED dest_i
                ELSE /\ pc' = "forward"
                     /\ UNCHANGED <<dest_i, any_destination_matched>>
  /\ call' = NoCall
  /\ UNCHANGED <<matcher, mailbox, last_message_ids, idx, messages, message, sender_name,
                 sender_username, nSender, forward_error, startup, sleep_seconds, cycle, failures,
                 nForward, nSend, nOk, cyc>>

\* sender = await message.get_sender(), at the first destination that matched
GetSender ==
  /\ pc = "sender"
  /\ call' = [op |-> "get_sender", id |-> CurSource, message |-> message]
  /\ \/ /\ Raises(FALSE)
        /\ SourceRaised(CurSource, "get_sender")
     \/ \E sender \in Senders :
          /\ Raises(TRUE)
          /\ sender_name' = get_sender_name(sender)
          /\ sender_username' = get_sender_username(sender)
          /\ nSender' = nSender + 1
          /\ pc' = "forward"
          /\ UNCHANGED <<idx, messages, message, dest_i, any_destination_matched,
                         forward_error, sleep_seconds, raisedAt>>
  /\ UNCHANGED <<matcher, mailbox, last_message_ids, startup, cycle, hist, fetched, cursor0, nFetch, nAck>>

\* the for loop over the destinations goes on with the next destination
NextDestination ==
  /\ dest_i' = dest_i + 1
  /\ pc' = "match"
  /\ forward_error' = None
  /\ UNCHANGED <<idx, messages, message, any_destination_matched, sender_name,
                 sender_username, nSender, sleep_seconds, raisedAt>>

\* what forward_messages can do: deliver, or raise one of two classes of error
ForwardOutcomes == {"ok", "ForwardRestricted", "OtherError"}

\* try: await client.forward_messages(dest_id, message)
\* except Exception as forward_error: ... copy_message_content(...)
ForwardMessage ==
  /\ pc = "forward"
  /\ call' = [op |-> "forward_messages", dest |-> CurDest, id |-> CurSource,
              message |-> message]
  /\ nForward' = [nForward EXCEPT ![CurPair] = @ + 1]
  /\ \E outcome \in ForwardOutcomes :
       /\ Raises(outcome = "ok")
       /\ IF outcome = "ok"
          THEN /\ nOk' = [nOk EXCEPT ![CurPair] = @ + 1]
               /\ NextDestination
          ELSE /\ forward_error' = outcome
               /\ pc' = "copy"
               /\ UNCHANGED <<nOk, idx, messages, message, dest_i, any_destination_matched,
                              sender_name, sender_username, nSender, sleep_seconds, raisedAt>>
  /\ UNCHANGED <<matcher, mailbox, last_message_ids, startup, cycle, nEval, nMatch, nSend,
                 fetched, cursor0, nFetch, nAck>>

\* copy_message_content: header, message_text, full_message and the
\* arguments of client.send_message(dest_chat_id, full_message, link_preview=False)
CopyArgs(msg, dest_chat_id, source_chat_name, name, username) ==
  [op |-> "send_message",
   dest |-> dest_chat_id,
   header |-> IF username # None
              THEN <<"**From ", name, " (@", username, ") in ", source_chat_name, ":**\n\n">>
              ELSE <<"**From ", name, " in ", source_chat_name, ":**\n\n">>,
   body |-> IF msg.text # <<>> THEN msg.text ELSE msg.caption,
   link_preview |-> FALSE]

\* copy_message_content returns True or False to its caller, which goes on
\* with the next destination
CopyReturns(pair, result) ==
  /\ nOk' = [nOk EXCEPT ![pair] = IF result THEN @ + 1 ELSE @]
  /\ NextDestination

\* variant: copy_message_content has no try, the exception of send_message
\* reaches the per-source handler
CopyRaised_Propagates(pair) ==
  /\ SourceRaised(pair[1], "send_message")
  /\ UNCHANGED nOk

\* except Exception as e: print(...); return False
CopyRaised(pair) == CopyReturns(pair, FALSE)

\* copy_success = await copy_message_content(message, dest_id, source_name,
\*                                           sender_name or "Unknown Sender", sender_username)
CopyMessageContent ==
  /\ pc = "copy"
  /\ call' = CopyArgs(mailbox[CurSource][message], CurDest,
                      all_sources.info[CurSource].source_name,
                      IF sender_name # None THEN sender_name ELSE "Unknown Sender",
                      sender_username)
               @@ [id |-> CurSource, message |-> message, cause |-> forward_error]
  /\ nSend' = [nSend EXCEPT ![CurPair] = @ + 1]
  /\ \E ok \in BOOLEAN :
       /\ Raises(ok)
       /\ IF ok THEN CopyReturns(CurPair, TRUE) ELSE CopyRaised(CurPair)
  /\ UNCHANGED <<matcher, mailbox, last_message_ids, startup, cycle, nEval, nMatch, nForward,
                 fetched, cursor0, nFetch, nAck>>

\* variant: the cursor moves past a message only when none of its deliveries failed
FinishMessage_OnlyOnSuccess ==
  /\ pc = "match"
  /\ dest_i > Len(all_sources.info[CurSource].dest_order)
  /\ last_message_ids' =
       IF \E d \in DestsOf(CurSource) :
            nForward[<<CurSource, message, d>>] > nOk[<<CurSource, message, d>>]
       THEN last_message_ids
       ELSE [last_message_ids EXCEPT ![CurSource] = AdvanceCursor(@, message)]
  /\ pc' = "message"
  /\ message' = 0
  /\ dest_i' = 1
  /\ any_destination_matched' = FALSE
  /\ sender_name' = None
  /\ sender_username' = None
  /\ nSender' = 0
  /\ call' = NoCall
  /\ UNCHANGED <<matcher, mailbox, idx, messages, forward_error, startup, sleep_seconds, cycle,
                 failures, hist, cyc>>

\* after the loop over the destinations:
\* last_message_ids[source_id] = max(last_message_ids[source_id], message.id)
FinishMessage ==
  /\ pc = "match"
  /\ dest_i > Len(all_sources.info[CurSource].dest_order)
  /\ last_message_ids' =
       [last_message_ids EXCEPT ![CurSource] = AdvanceCursor(@, message)]
  /\ pc' = "message"
  /\ message' = 0
  /\ dest_i' = 1
  /\ any_destination_matched' = FALSE
  /\ sender_name' = None
  /\ sender_username' = None
  /\ nSender' = 0
  /\ call' = NoCall
  /\ UNCHANGED <<matcher, mailbox, idx, messages, forward_error, startup, sleep_seconds, cycle,
                 failures, hist, cyc>>

\* variant: send_read_acknowledge stands outside the per-source try
MarkReadRaised_Escapes(source_id) ==
  SourceRaised_Escapes(source_id, "send_read_acknowledge")

\* send_read_acknowledge raised: the per-source handler, then the next source
MarkReadRaised(source_id) == SourceRaised(source_id, "send_read_acknowledge")

\* await client.send_read_acknowledge(source_id), inside the per-source try
MarkRead ==
  /\ pc = "ack"
  /\ call' = [op |-> "send_read_acknowledge", id |-> CurSource]
  /\ nAck' = [nAck EXCEPT ![CurSource] = @ + 1]
  /\ \E ok \in BOOLEAN :
       /\ Raises(ok)
       /\ IF ok
          THEN ContinueSources /\ UNCHANGED raisedAt
          ELSE MarkReadRaised(CurSource)
  /\ UNCHANGED <<matcher, mailbox, last_message_ids, startup, cycle, hist, fetched, cursor0, nFetch>>

\* check_and_forward_messages returns; await asyncio.sleep(INTERVAL_MINUTES * 60)
CycleEnd ==
  /\ pc = "fetch"
  /\ idx > Len(all_sources.order)
  /\ pc' = "sleep"
  /\ idx' = 1
  /\ sleep_seconds' = INTERVAL_MINUTES * 60
  /\ call' = NoCall
  /\ UNCHANGED <<matcher, mailbox, last_message_ids, locals, startup, cycle, failures, hist, cyc>>

\* the sleep ends and the while True loop calls check_and_forward_messages again
Wake ==
  /\ pc = "sleep"
  /\ sleep_seconds' = 0
  /\ EnterCycle

\* variant: periodic_message_checker has no handler, the exception reaches
\* the handler of main: sys.exit(1)
CycleErrorHandler_Exits ==
  /\ pc' = "exit"
  /\ idx' = 1
  /\ ResetLocals
  /\ UNCHANGED sleep_seconds

\* periodic_message_checker: except Exception as e: print(...);
\* await asyncio.sleep(60)
CycleErrorHandler ==
  /\ pc' = "sleep"
  /\ idx' = 1
  /\ ResetLocals
  /\ sleep_seconds' = COOLDOWN_SECONDS

\* A statement of check_and_forward_messages that stands outside the
\* per-source try raises (the print on entry, the print inside the
\* per-source handler, the summary prints after the loop: writing to a
\* closed or non-UTF-8 stdout raises), so the exception leaves the cycle.
CycleRaised ==
  /\ pc = "fetch"
  /\ \/ idx = 1
     \/ idx > Len(all_sources.order)
     \/ idx > 1 /\ raisedAt[all_sources.order[idx - 1]] # None
  /\ Raises(FALSE)
  /\ call' = [op |-> "print", raised |-> TRUE]
  /\ CycleErrorHandler
  /\ UNCHANGED <<matcher, mailbox, last_message_ids, startup, cycle, hist, cyc>>

Next ==
  \/ Post
  \/ Connect
  \/ VerifyDestination
  \/ VerifySource
  \/ Notify
  \/ CycleStart
  \/ GetMessages
  \/ NextMessage
  \/ MatchDestination
  \/ GetSender
  \/ ForwardMessage
  \/ CopyMessageContent
  \/ FinishMessage
  \/ MarkRead
  \/ CycleEnd
  \/ Wake

Spec == Init /\ [][Next]_vars

\* the program with the records of its startup kept for the whole run
NextStartup ==
  \/ Post
  \/ Connect
  \/ VerifyDestination
  \/ VerifySource
  \/ NotifyKeeping
  \/ CycleStart
  \/ GetMessages
  \/ NextMessage
  \/ MatchDestination
  \/ GetSender
  \/ ForwardMessage
  \/ CopyMessageContent
  \/ FinishMessage
  \/ MarkRead
  \/ CycleEnd
  \/ Wake

SpecStartup == Init /\ [][NextStartup]_vars

(***************************************************************************)
(* The matcher on its own: a keyword as configured and a text are given,   *)
(* the routing table folds the keyword (kw.lower() when all_sources is     *)
(* built), and contains_keyword is called with the text and the folded     *)
(* keyword.  The polling program stands still meanwhile.                   *)
(***************************************************************************)
program == <<mailbox, last_message_ids, ctl, startup, sleep_seconds, cycle, failures,
             hist, cyc, call>>

SeqsUpTo(A, n) == UNION {[1..k -> A] : k \in 0..n}

\* the letters the keywords are written with: both cases, a space, a tab
KeywordChars == {"a", "B", " ", "\t"}
\* the letters the texts are written with
TextChars == {"a", "b", "A", "B", " "}

\* "b comes before a"
ExampleText ==
  <<"b", " ", "c", "o", "m", "e", "s", " ", "b", "e", "f", "o", "r", "e", " ", "a">>

KeywordInputs == SeqsUpTo(KeywordChars, MaxKeywordLen)
TextInputs == SeqsUpTo(TextChars, MaxTextLen) \cup {ExampleText}

MatcherInit ==
  /\ ProgramInit
  /\ matcher \in {[step |-> "configured", keyword |-> k, folded |-> <<>>, text |-> t,
                   result |-> <<>>] : k \in KeywordInputs, t \in TextInputs}

\* all_sources[source_id]["dest_keywords_lower"][dest_id] =
\*   [kw.lower() for kw in source_info["KEYWORDS"]]
FoldKeyword ==
  /\ matcher.step = "configured"
  /\ matcher' = [matcher EXCEPT !.step = "folded", !.folded = Lower(matcher.keyword)]
  /\ UNCHANGED program

\* matched_keywords = contains_keyword(message_text, kw_list_lower)
CallContainsKeyword ==
  /\ matcher.step = "folded"
  /\ matcher' = [matcher EXCEPT
                   !.step = "matched",
                   !.result = contains_keyword(matcher.text, <<matcher.folded>>)]
  /\ UNCHANGED program

NextMatcher ==
  \/ FoldKeyword
  \/ CallContainsKeyword

SpecMatcher == MatcherInit /\ [][NextMatcher]_vars

\* a step of the program itself, as opposed to a post to a source
ProgramStep ==
  \/ Connect
  \/ VerifyDestination
  \/ VerifySource
  \/ Notify
  \/ CycleStart
  \/ GetMessages
  \/ NextMessage
  \/ MatchDestination
  \/ GetSender
  \/ ForwardMessage
  \/ CopyMessageContent
  \/ FinishMessage
  \/ MarkRead
  \/ CycleEnd
  \/ CycleRaised
  \/ Wake

\* the program where also the logging of a cycle can raise
NextLive ==
  \/ Post
  \/ ProgramStep

\* Every awaited call returns or raises and every sleep ends: the event
\* loop then resumes the coroutine, so the program takes its next step.
SpecLive == Init /\ [][NextLive]_vars /\ WF_vars(ProgramStep)

(***************************************************************************)
(* The program when every backend call returns: each step is the step of   *)
(* the program with no exception raised in it.  The records of the         *)
(* startup are kept, and more messages are posted than one fetch returns.  *)
(* copy_message_content is not among the steps: it is called only when a   *)
(* forward raised.                                                         *)
(***************************************************************************)
\* step A of the program with every backend call of it returning
Returns(A) == A /\ failures' = failures

PostLoad == PostUpTo(MaxLoadMsgs)

LoadStep ==
  \/ Returns(Connect)
  \/ Returns(VerifyDestination)
  \/ Returns(VerifySource)
  \/ Returns(NotifyKeeping)
  \/ Returns(CycleStart)
  \/ Returns(GetMessages)
  \/ Returns(NextMessage)
  \/ Returns(MatchDestination)
  \/ Returns(GetSender)
  \/ Returns(ForwardMessage)
  \/ Returns(FinishMessage)
  \/ Returns(MarkRead)
  \/ Returns(CycleEnd)
  \/ Returns(Wake)

NextLoad ==
  \/ PostLoad
  \/ LoadStep

\* Every awaited call returns and every sleep ends: the event loop resumes
\* the coroutine, so the program takes its next step.
SpecLoad == Init /\ [][NextLoad]_vars /\ WF_vars(LoadStep)

(***************************************************************************)
(* Vocabulary of the properties.                                           *)
(***************************************************************************)
\* the program has looked at message id of source s
Known(s, id) == id <= Len(mailbox[s]) /\ mailbox[s][id] # Unread

\* the keyword list of destination d matches message id of source s
Matches(s, id, d) ==
  contains_keyword(MessageText(mailbox[s][id]),
                   all_sources.info[s].dest_keywords_lower[d]) # <<>>

\* the message loop stands inside the body for message id of source s
InProcess(s, id) ==
  /\ pc \in {"match", "sender", "forward", "copy"}
  /\ CurSource = s
  /\ message = id

\* the delivery of pair p is over and did not deliver: the forward raised and
\* copy_message_content returned False
DeliveryFailed(p) ==
  /\ nForward[p] > nOk[p]
  /\ ~(pc = "copy" /\ CurPair = p)

\* the last step called send_message from copy_message_content
CopySent == call.op = "send_message" /\ "cause" \in DOMAIN call

MaxOf(S) == CHOOSE i \in S : \A j \in S : j <= i

\* the cycle that ran last has returned
CycleOver == pc = "sleep"

(***************************************************************************)
(* C1: for every (message, destination) pair at most one delivery          *)
(* succeeds, over all cycles and whatever fails (a forward that delivered  *)
(* or a copy that delivered, never both, never twice), and the copy of a   *)
(* pair is sent only right after the forward of that pair raised.          *)
(***************************************************************************)
C1_AtMostOnce ==
  /\ \A p \in Pairs : nOk[p] <= 1 /\ nSend[p] <= nForward[p]
  /\ pc = "copy" =>
       /\ forward_error # None
       /\ call = [op |-> "forward_messages", dest |-> CurDest, id |-> CurSource,
                  message |-> message]

\* a pair delivered by the fallback copy in the first cycle, its source fetched
\* again by the second cycle
C1_Witness ==
  \E p \in Pairs :
    /\ nOk[p] = 1 /\ nSend[p] = 1
    /\ cycle = 2 /\ CycleOver
    /\ cursor0[p[1]] >= p[2]
    /\ nFetch[p[1]] = 1 /\ raisedAt[p[1]] = None

(***************************************************************************)
(* C2: no step lowers a cursor: last_message_ids[s] never decreases, at    *)
(* startup or in a cycle, with the ids of a batch arriving newest first    *)
(* and whatever fails.                                                     *)
(***************************************************************************)
C2_CursorMonotonic ==
  [][\A s \in SourceIds : last_message_ids'[s] >= last_message_ids[s]]_vars

\* an older message of a batch is in process while the cursor already stands
\* at a newer one
C2_Witness ==
  /\ pc = "match"
  /\ message # 0
  /\ message < last_message_ids[CurSource]
  /\ last_message_ids[CurSource] > cursor0[CurSource]

(***************************************************************************)
(* C3: every message of a source is put to the matcher in at most one      *)
(* cycle, whatever is delivered and whatever backend call raises.          *)
(***************************************************************************)
C3_EvaluatedAtMostOnce ==
  \A s \in SourceIds : \A id \in 1..MaxMsgs : nEval[s][id] <= 1

(***************************************************************************)
(* C4: a failed delivery is never retried: once the delivery of a pair     *)
(* has failed (forward raised, copy failed) there has been exactly one     *)
(* forward and one send for the pair, for ever, and as soon as the body    *)
(* of the message loop is left the cursor of the source is at least the    *)
(* id of the message.                                                      *)
(***************************************************************************)
C4_FailedNeverRetried ==
  \A p \in Pairs :
    DeliveryFailed(p) =>
      /\ nForward[p] = 1
      /\ nSend[p] = 1
      /\ nOk[p] = 0
      /\ InProcess(p[1], p[2]) \/ last_message_ids[p[1]] >= p[2]

\* the delivery failed in the first cycle and the source was fetched again, with
\* a message to process, in the second
C4_Witness ==
  \E p \in Pairs :
    /\ DeliveryFailed(p)
    /\ cycle = 2 /\ CycleOver
    /\ cursor0[p[1]] >= p[2]
    /\ fetched[p[1]] # {}

(***************************************************************************)
(* C5: the copy is sent only when the forward raised ForwardRestricted;    *)
(* after any other error of the forward no send_message is issued for      *)
(* the pair.                                                               *)
(***************************************************************************)
C5_CopyOnlyWhenRestricted ==
  CopySent => call.cause = "ForwardRestricted"

(***************************************************************************)
(* C6: when the forward of a matched pair raises ForwardRestricted,        *)
(* send_message is called exactly once for the pair, with link_preview     *)
(* False, a header holding the sender's display name and then the name of  *)
(* the source, followed by the text (or caption) of the message, and the   *)
(* exception of a failing send does not leave the delivery: the loop over  *)
(* the destinations goes on with the same message.                         *)
(***************************************************************************)
C6_FallbackCopy ==
  /\ (pc = "copy" /\ forward_error = "ForwardRestricted") => nSend[CurPair] = 0
  /\ (call.op = "forward_messages" /\ forward_error = "ForwardRestricted") => pc = "copy"
  /\ (CopySent /\ call.cause = "ForwardRestricted") =>
       /\ nSend[<<call.id, call.message, call.dest>>] = 1
       /\ call.link_preview = FALSE
       /\ call.header[1] = "**From "
       /\ call.header[2] = (IF sender_name # None THEN sender_name ELSE "Unknown Sender")
       /\ call.header[Len(call.header) - 1] = all_sources.info[call.id].source_name
       /\ call.body = MessageText(mailbox[call.id][call.message])
       /\ pc = "match" /\ CurSource = call.id /\ message = call.message
  /\ \A s \in SourceIds : raisedAt[s] \notin {"forward_messages", "send_message"}

\* the forward raised ForwardRestricted, the copy was sent and raised too
C6_Witness ==
  /\ CopySent
  /\ call.cause = "ForwardRestricted"
  /\ nOk[<<call.id, call.message, call.dest>>] = 0
  /\ sender_name = "Ann Lee"

(***************************************************************************)
(* C7: when a cycle is over, every message that was put to the matcher     *)
(* and lies behind the cursor has exactly one forward per destination      *)
(* whose keywords match it, and no forward and no send per destination     *)
(* whose keywords do not.                                                  *)
(***************************************************************************)
C7_FanOut ==
  CycleOver =>
    \A p \in Pairs :
      (nEval[p[1]][p[2]] >= 1 /\ last_message_ids[p[1]] >= p[2]) =>
        IF Matches(p[1], p[2], p[3])
        THEN nForward[p] = 1
        ELSE nForward[p] = 0 /\ nSend[p] = 0

(***************************************************************************)
(* C8: when the message loop of a source has run to its end, the cursor    *)
(* of the source is the maximum of its value at the start of the cycle     *)
(* and the largest id fetched for the source in the cycle.                 *)
(***************************************************************************)
C8_CursorAtMaxFetched ==
  \A s \in SourceIds :
    (CycleOver /\ fetched[s] # {} /\ raisedAt[s] \in {None, "send_read_acknowledge"}) =>
      last_message_ids[s] = MaxOf(fetched[s] \cup {cursor0[s]})

(***************************************************************************)
(* C9: a backend call that raises while one source is processed leaves     *)
(* the rest of the cycle alone: the cycle returns normally (the sleep is   *)
(* the interval, not the cooldown), every source has been fetched once,    *)
(* and the cursor of every source whose own messages were all processed    *)
(* is the maximum of its value at the start of the cycle and the ids of    *)
(* the messages of its batch that are not outgoing, whatever happened to   *)
(* the other sources.                                                      *)
(***************************************************************************)
C9_SourceIsolation ==
  CycleOver =>
    /\ sleep_seconds = INTERVAL_MINUTES * 60
    /\ \A s \in SourceIds :
         /\ nFetch[s] = 1
         /\ raisedAt[s] \in {None, "send_read_acknowledge"} =>
              last_message_ids[s] =
                MaxOf({id \in fetched[s] : ~mailbox[s][id].out} \cup {cursor0[s]})

\* the first source raised, the second was fetched after that and its cursor moved
C9_Witness ==
  /\ CycleOver
  /\ raisedAt[all_sources.order[1]] \in {"get_messages", "get_sender"}
  /\ raisedAt[all_sources.order[2]] = None
  /\ last_message_ids[all_sources.order[2]] > cursor0[all_sources.order[2]]

(***************************************************************************)
(* C10: when a cycle is over and the delivery of a message of its batch    *)
(* to one destination has failed, the message has been put to the matcher  *)
(* for every destination of its source and forwarded to those that match,  *)
(* and every later message of the batch that is not outgoing has been put  *)
(* to the matcher for every destination of its source.                     *)
(***************************************************************************)
C10_DeliveryFailureIsolation ==
  CycleOver =>
    \A p \in Pairs :
      (DeliveryFailed(p) /\ p[2] \in fetched[p[1]]) =>
        /\ \A d \in DestsOf(p[1]) :
             /\ nMatch[<<p[1], p[2], d>>] >= 1
             /\ Matches(p[1], p[2], d) => nForward[<<p[1], p[2], d>>] >= 1
        /\ \A id \in fetched[p[1]] :
             (id < p[2] /\ ~mailbox[p[1]][id].out) =>
               \A d \in DestsOf(p[1]) : nMatch[<<p[1], id, d>>] >= 1

(***************************************************************************)
(* Vocabulary of the claims about the startup.                             *)
(***************************************************************************)
\* DEST_ID_TO_NAME: the configured name of destination d (the key of its
\* entry in DESTINATIONS)
DestName(d) ==
  DESTINATIONS[CHOOSE i \in 1..Len(DESTINATIONS) : DESTINATIONS[i].DESTINATION = d].name

\* the last step was the get_messages of a polling cycle
CycleFetch == call.op = "get_messages" /\ "min_id" \in DOMAIN call

\* the last step was a delivery call of a polling cycle
CycleDelivery == call.op = "forward_messages" \/ CopySent

(***************************************************************************)
(* C11: a source that main recorded as inaccessible at startup is never    *)
(* fetched by a polling cycle, a destination that main recorded as         *)
(* inaccessible is never the target of a forward or of a copy, and the     *)
(* process exits only when the connection itself failed.                   *)
(***************************************************************************)
C11_StartupExclusion ==
  /\ CycleFetch =>
       all_sources.info[call.id].source_name \notin Range(inaccessible_sources)
  /\ CycleDelivery => DestName(call.dest) \notin Range(inaccessible_destinations)
  /\ pc = "exit" => (call.op = "start" /\ inaccessible_sources = <<>>
                                       /\ inaccessible_destinations = <<>>)

(***************************************************************************)
(* C12: a message that its source already held when startup looked at the  *)
(* source is never put to the matcher, never forwarded and never copied.   *)
(***************************************************************************)
C12_NoHistoryReplay ==
  \A p \in Pairs :
    p[2] <= existing[p[1]] =>
      /\ nEval[p[1]][p[2]] = 0
      /\ nMatch[p] = 0
      /\ nForward[p] = 0
      /\ nSend[p] = 0

(***************************************************************************)
(* C13: once the polling loop has started the process never exits; a       *)
(* sleep is the interval after a cycle that returned and the 60 s          *)
(* cooldown after a cycle that raised; the step that ends a sleep starts   *)
(* the next cycle; and from every point of the polling loop the next       *)
(* cycle eventually begins (up to the number of cycles explored).          *)
(***************************************************************************)
C13_LoopNeverStops ==
  /\ [](pc = "exit" => cycle = 0 /\ call.op = "start")
  /\ [](pc = "sleep" =>
         sleep_seconds = IF call.op = "print"
                         THEN COOLDOWN_SECONDS
                         ELSE INTERVAL_MINUTES * 60)
  /\ [][(pc = "sleep" /\ pc' # "sleep") => (pc' = "fetch" /\ cycle' = cycle + 1)]_vars
  /\ \A n \in 0..(MaxCycles - 1) :
       (pc \in {"loop", "fetch", "message", "match", "sender", "forward", "copy",
                "ack", "sleep"} /\ cycle = n) ~> (cycle = n + 1)

\* the logging of the first cycle raised after a source was processed: the
\* loop sleeps the cooldown and has a cycle left to start
C13_Witness ==
  /\ pc = "sleep"
  /\ sleep_seconds = COOLDOWN_SECONDS
  /\ cycle = 1
  /\ \E s \in SourceIds : nFetch[s] = 1

(***************************************************************************)
(* Vocabulary of the claims about the routing table and the matcher:       *)
(* case folding and occurrence, stated without str.lower and `in`.         *)
(***************************************************************************)
CaseFoldChar(c) ==
  IF c \in {"A", "B", "C", "X"}
  THEN [u \in {"A", "B", "C", "X"} |->
          IF u = "A" THEN "a" ELSE IF u = "B" THEN "b" ELSE IF u = "C" THEN "c" ELSE "x"][c]
  ELSE c

CaseFold(s) == [i \in DOMAIN s |-> CaseFoldChar(s[i])]

\* w occurs in t: some stretch of t, letter by letter, is w
Occurs(w, t) ==
  \E start \in 0..Len(t) :
    /\ start + Len(w) <= Len(t)
    /\ \A j \in 1..Len(w) : t[start + j] = w[j]

(***************************************************************************)
(* C14: every source id of the configuration has exactly one entry in      *)
(* the source index; the entry binds every destination that lists the      *)
(* source, each with the keyword list (and its folded copy) configured     *)
(* for that destination; and a polling cycle calls get_messages at most    *)
(* once per source, exactly once when the cycle is over.                   *)
(***************************************************************************)
C14_RoutingMerge ==
  /\ \A k \in 1..Len(ConfigEntries) :
       LET e == ConfigEntries[k] IN
         /\ Cardinality({i \in 1..Len(all_sources.order) :
                            all_sources.order[i] = e.source_id}) = 1
         /\ Cardinality({i \in 1..Len(all_sources.info[e.source_id].dest_order) :
                            all_sources.info[e.source_id].dest_order[i] = e.dest_id}) = 1
         /\ all_sources.info[e.source_id].dest_keywords[e.dest_id] = e.KEYWORDS
         /\ all_sources.info[e.source_id].dest_keywords_lower[e.dest_id] =
              [j \in 1..Len(e.KEYWORDS) |-> CaseFold(e.KEYWORDS[j])]
  /\ \A s \in SourceIds : nFetch[s] <= 1
  /\ CycleOver => \A s \in SourceIds : nFetch[s] = 1

\* a source listed under two destinations was fetched once in the second cycle
\* and one of its messages was put to the matcher for both destinations
C14_Witness ==
  /\ CycleOver
  /\ cycle = 2
  /\ \E s \in SourceIds :
       /\ Cardinality(DestsOf(s)) = 2
       /\ nFetch[s] = 1
       /\ \E id \in fetched[s] : \A d \in DestsOf(s) : nMatch[<<s, id, d>>] = 1

\* the characters that separate the words of a keyword
Whitespace == {" ", "\t", "\n"}

\* the words of k: the stretches of k without whitespace that cannot be extended
Tokens(k) ==
  { SubSeq(k, i, j) : <<i, j>> \in
      { ij \in (1..Len(k)) \X (1..Len(k)) :
          /\ ij[1] <= ij[2]
          /\ \A n \in ij[1]..ij[2] : k[n] \notin Whitespace
          /\ ij[1] = 1 \/ k[ij[1] - 1] \in Whitespace
          /\ ij[2] = Len(k) \/ k[ij[2] + 1] \in Whitespace } }

\* contains_keyword has returned for a keyword without a space
SingleWordMatched ==
  /\ matcher.step = "matched"
  /\ \A i \in 1..Len(matcher.keyword) : matcher.keyword[i] # " "

\* contains_keyword has returned for a keyword with a space in it
MultiWordMatched ==
  /\ matcher.step = "matched"
  /\ \E i \in 1..Len(matcher.keyword) : matcher.keyword[i] = " "

(***************************************************************************)
(* C15, as stated: for every keyword without a space and every text, the   *)
(* result of contains_keyword is non-empty exactly when the folded         *)
(* keyword occurs in the folded text.                                      *)
(***************************************************************************)
C15_SingleWord ==
  SingleWordMatched =>
    (matcher.result # <<>> <=> Occurs(CaseFold(matcher.keyword), CaseFold(matcher.text)))

(***************************************************************************)
(* C15, amended: for every keyword without a space and every text that is  *)
(* not empty, the result of contains_keyword is non-empty (and is the      *)
(* folded keyword) exactly when the folded keyword occurs in the folded    *)
(* text; for the empty text the result is empty, whatever the keyword.     *)
(***************************************************************************)
C15_SingleWordNonEmptyText ==
  SingleWordMatched =>
    IF matcher.text = <<>>
    THEN matcher.result = <<>>
    ELSE /\ matcher.result # <<>> <=>
              Occurs(CaseFold(matcher.keyword), CaseFold(matcher.text))
         /\ matcher.result \in {<<>>, <<CaseFold(matcher.keyword)>>}

\* a keyword and a text that differ in case and match
C15_Witness ==
  /\ SingleWordMatched
  /\ matcher.keyword = <<"B", "a">>
  /\ matcher.text = <<"A", "b", "A">>
  /\ matcher.result = << <<"b", "a">> >>

(***************************************************************************)
(* C16, as stated: for every keyword with a space and every text, the      *)
(* keyword matches exactly when every whitespace-separated word of the     *)
(* folded keyword occurs in the folded text, in any order and anywhere.    *)
(***************************************************************************)
C16_MultiWord ==
  MultiWordMatched =>
    (matcher.result # <<>> <=>
       \A w \in Tokens(CaseFold(matcher.keyword)) : Occurs(w, CaseFold(matcher.text)))

(***************************************************************************)
(* C16, amended: for every keyword with a space and every text that is     *)
(* not empty, the keyword matches exactly when every whitespace-separated  *)
(* word of the folded keyword occurs in the folded text, in any order and  *)
(* anywhere; for the empty text nothing matches.                           *)
(***************************************************************************)
C16_MultiWordNonEmptyText ==
  MultiWordMatched =>
    IF matcher.text = <<>>
    THEN matcher.result = <<>>
    ELSE matcher.result # <<>> <=>
           \A w \in Tokens(CaseFold(matcher.keyword)) : Occurs(w, CaseFold(matcher.text))

\* the text "b comes before a" matches the keyword "a B"
C16_Witness ==
  /\ MultiWordMatched
  /\ matcher.keyword = <<"a", " ", "B">>
  /\ matcher.text = ExampleText
  /\ matcher.result = << <<"a", " ", "b">> >>

(***************************************************************************)
(* C17: a message flagged as outgoing is never put to the matcher, is      *)
(* never the message in process (so no sender is looked up for it) and is  *)
(* never forwarded or copied, in any cycle and whatever its text.          *)
(***************************************************************************)
C17_OutgoingSkipped ==
  /\ \A p \in Pairs :
       (Known(p[1], p[2]) /\ mailbox[p[1]][p[2]].out) =>
         /\ nEval[p[1]][p[2]] = 0
         /\ nMatch[p] = 0
         /\ nForward[p] = 0
         /\ nSend[p] = 0
  /\ message # 0 => ~mailbox[CurSource][message].out
  /\ call.op = "get_sender" => ~mailbox[call.id][call.message].out

\* an outgoing message whose text holds a keyword of its source was fetched
\* by the second cycle, and the cycle is over
C17_Witness ==
  /\ CycleOver
  /\ cycle = 2
  /\ \E s \in SourceIds : \E id \in fetched[s] :
       /\ mailbox[s][id].out
       /\ id > cursor0[s]
       /\ \E d \in DestsOf(s) : Matches(s, id, d)

\* the cursor a source has once its batch is processed: the maximum of its
\* value when the cycle started and the ids of the batch that are not outgoing
AdvancedCursor(s) == MaxOf({id \in fetched[s] : ~mailbox[s][id].out} \cup {cursor0[s]})

(***************************************************************************)
(* C18: when get_sender raised for a message of a source, then at the end  *)
(* of the cycle every message of the batch of that source has been taken   *)
(* up by the message loop and, unless outgoing, put to the matcher.        *)
(***************************************************************************)
C18_SenderFailureConfined ==
  CycleOver =>
    \A s \in SourceIds :
      raisedAt[s] = "get_sender" =>
        \A id \in fetched[s] :
          /\ Known(s, id)
          /\ mailbox[s][id].out \/ nEval[s][id] >= 1

(***************************************************************************)
(* C19: for the message in process get_sender is called at most once; it   *)
(* is called at the first destination whose keywords match, before any     *)
(* forward of the message; a forward or a copy is attempted only with the  *)
(* sender resolved; when the loop over the destinations is through, the    *)
(* sender was resolved once if some destination matched and not at all if  *)
(* none did; and the resolved name and username stay what they are for     *)
(* the other destinations of the message.                                  *)
(***************************************************************************)
C19_LazySharedSender ==
  /\ [](/\ nSender <= 1
        /\ pc \in {"forward", "copy"} => nSender = 1
        /\ pc = "sender" =>
             /\ nSender = 0
             /\ Matches(CurSource, message, CurDest)
             /\ \A j \in 1..(dest_i - 1) :
                  ~Matches(CurSource, message, all_sources.info[CurSource].dest_order[j])
             /\ \A d \in DestsOf(CurSource) : nForward[<<CurSource, message, d>>] = 0
        /\ (pc = "match" /\ dest_i > Len(all_sources.info[CurSource].dest_order)) =>
             nSender = IF \E d \in DestsOf(CurSource) : Matches(CurSource, message, d)
                       THEN 1 ELSE 0)
  /\ [][(nSender = 1 /\ message' = message) =>
          (nSender' = 1 /\ sender_name' = sender_name
                        /\ sender_username' = sender_username)]_vars

\* the second destination of a message is about to get its forward, after the
\* first one got its own, with the sender resolved once
C19_Witness ==
  /\ pc = "forward"
  /\ dest_i = 2
  /\ nSender = 1
  /\ sender_username = "ann"
  /\ nForward[<<CurSource, message, all_sources.info[CurSource].dest_order[1]>>] = 1

(***************************************************************************)
(* C20: send_read_acknowledge is called at most once per source and        *)
(* cycle, and only when every message of the batch has been taken up and   *)
(* the cursor of the source has its value for the cycle; the call,         *)
(* whether it returns or raises, changes no cursor and no delivery and is  *)
(* followed by the next source; and after it the cursor stays at that      *)
(* value until the cycle is over, by when every source has been fetched.   *)
(***************************************************************************)
C20_MarkReadLast ==
  /\ [](/\ \A s \in SourceIds : nAck[s] <= 1
        /\ pc = "ack" =>
             /\ messages = <<>> /\ message = 0
             /\ nAck[CurSource] = 0
             /\ fetched[CurSource] # {}
             /\ \A id \in fetched[CurSource] : Known(CurSource, id)
             /\ last_message_ids[CurSource] = AdvancedCursor(CurSource)
        /\ \A s \in SourceIds :
             nAck[s] = 1 =>
               /\ raisedAt[s] \in {None, "send_read_acknowledge"}
               /\ last_message_ids[s] = AdvancedCursor(s)
        /\ CycleOver => \A s \in SourceIds : nFetch[s] = 1)
  /\ [][pc = "ack" =>
          /\ call'.op = "send_read_acknowledge"
          /\ last_message_ids' = last_message_ids
          /\ nOk' = nOk
          /\ pc' = "fetch" /\ idx' = idx + 1]_vars

\* the mark-read of the first source raised after a message of it was
\* delivered; its cursor is advanced and the second source was processed
\* and marked read
C20_Witness ==
  /\ CycleOver
  /\ raisedAt[all_sources.order[1]] = "send_read_acknowledge"
  /\ last_message_ids[all_sources.order[1]] > cursor0[all_sources.order[1]]
  /\ \E p \in Pairs : p[1] = all_sources.order[1] /\ p[2] \in fetched[p[1]] /\ nOk[p] = 1
  /\ nAck[all_sources.order[2]] = 1

\* main has looked at source s: its get_entity and get_messages(limit=1) are over
StartupDone(s) ==
  \/ pc \notin {"connect", "verify_dest", "verify_source", "exit"}
  \/ pc = "verify_source" /\ \E i \in 1..(idx - 1) : all_sources.order[i] = s

(***************************************************************************)
(* C22: the cursor of a source never exceeds the largest id the source     *)
(* holds; it is 0 until main has looked at the source and 0 or the id of   *)
(* the latest message the source held then until the first cycle; within   *)
(* a cycle it is its value at the start of the cycle or the id of a        *)
(* message of the batch that is not outgoing and was put to the matcher;   *)
(* and the only steps that change it are the startup query of the source,  *)
(* which sets it to the id of the latest message, and the end of the loop  *)
(* body of a message that is not outgoing and was fetched and put to the   *)
(* matcher, which sets it to the id of that message.                       *)
(***************************************************************************)
C22_CursorWithinSource ==
  /\ [](\A s \in SourceIds :
          /\ last_message_ids[s] <= Len(mailbox[s])
          /\ ~StartupDone(s) => last_message_ids[s] = 0
          /\ (StartupDone(s) /\ cycle = 0 /\ pc # "loop") =>
               last_message_ids[s] \in {0, existing[s]}
          /\ (cycle > 0 /\ last_message_ids[s] # cursor0[s]) =>
               /\ last_message_ids[s] \in fetched[s]
               /\ ~mailbox[s][last_message_ids[s]].out
               /\ nEval[s][last_message_ids[s]] >= 1)
  /\ [][\A s \in SourceIds :
          last_message_ids'[s] # last_message_ids[s] =>
            \/ /\ pc = "verify_source" /\ s = CurSource
               /\ call'.op = "get_messages"
               /\ last_message_ids'[s] = Len(mailbox[s])
            \/ /\ pc = "match" /\ s = CurSource
               /\ last_message_ids'[s] = message
               /\ message \in fetched[s]
               /\ ~mailbox[s][message].out
               /\ \A d \in DestsOf(s) : nMatch[<<s, message, d>>] >= 1]_vars

\* a source held a message when main looked at it, a message posted later was
\* fetched, put to the matcher and moved the cursor to the end of the source
C22_Witness ==
  \E s \in SourceIds :
    /\ CycleOver
    /\ cursor0[s] = 1
    /\ nEval[s][1] = 0
    /\ last_message_ids[s] = 2
    /\ Len(mailbox[s]) = 2

\* the messages posted to source s after main looked at it that the message
\* loop has not taken up.  While no call raises and no fetch has left a new
\* message out, these are the messages posted since the last poll of s (or,
\* while a batch is looped over, the rest of the batch).
NewSince(s) ==
  {id \in 1..Len(mailbox[s]) : id > existing[s] /\ mailbox[s][id] = Unread}

\* at most LAST_MESSAGES_LIMIT messages are waiting for the next poll of a source
BoundedLoad ==
  \A s \in SourceIds :
    StartupDone(s) => Cardinality(NewSince(s)) <= LAST_MESSAGES_LIMIT

\* message id of source s was fetched and, unless it is outgoing, put to the
\* matcher for every destination of s
Evaluated(s, id) ==
  /\ Known(s, id)
  /\ mailbox[s][id].out \/ \A d \in DestsOf(s) : nMatch[<<s, id, d>>] >= 1

(***************************************************************************)
(* C21: when no backend call raises and never more than                    *)
(* LAST_MESSAGES_LIMIT messages wait for the next poll of a source, every  *)
(* message posted to a source after main looked at the source is           *)
(* eventually fetched and, unless it is outgoing, put to the matcher for   *)
(* every destination of the source.                                        *)
(***************************************************************************)
C21_NoLossUnderBoundedLoad ==
  []BoundedLoad =>
    \A s \in SourceIds : \A id \in MsgIds :
      (StartupDone(s) /\ existing[s] < id /\ id <= Len(mailbox[s])) ~> Evaluated(s, id)

\* the first message of a source was outgoing, so the cursor stayed where it
\* was; LAST_MESSAGES_LIMIT messages were posted before the next poll, which
\* returned these and not the first, and both were put to the matcher
C21_Witness ==
  \E s \in SourceIds :
    /\ CycleOver
    /\ failures = 0
    /\ existing[s] = 0
    /\ cursor0[s] = 0
    /\ Len(mailbox[s]) = LAST_MESSAGES_LIMIT + 1
    /\ mailbox[s][1].out
    /\ fetched[s] = 2..(LAST_MESSAGES_LIMIT + 1)
    /\ \A id \in fetched[s] : ~mailbox[s][id].out /\ Evaluated(s, id)

====
